---- MODULE Spec2Model ----
(***************************************************************************)
(* Model of the GoNext runtime (src/testDir/main.go, and the identical     *)
(* template in cmd): the embedded static file server with its SPA          *)
(* fallback, the backend child process, and the graceful shutdown.         *)
(*                                                                         *)
(* Paths are sequences of tokens: the separator "/" and whole element      *)
(* names ("index.html", "sub", "..", ...).  Requests are plain GETs with   *)
(* no Range or conditional headers.                                        *)
(***************************************************************************)
EXTENDS Integers, Sequences, FiniteSets, TLC

(***************************************************************************)
(* Bounds of the model.                                                    *)
(***************************************************************************)
MaxPathLen == 4
MaxConns == 2
MaxSignals == 2

(***************************************************************************)
(* Paths.                                                                  *)
(***************************************************************************)
Sep == "/"
FileNames == {"index.html", "style.css"}
DirNames == {"sub"}
OtherNames == {"nope"}
DotNames == {".", ".."}
Tokens == {Sep} \cup FileNames \cup DirNames \cup OtherNames \cup DotNames

\* Two names never touch: a name is one whole path element.
WellFormed(p) == \A i \in 1..(Len(p) - 1) : p[i] = Sep \/ p[i + 1] = Sep

SeqsUpTo(n) == UNION {[1..k -> Tokens] : k \in 0..n}

\* The request paths: every URL path starts with the separator.
Paths == {p \in SeqsUpTo(MaxPathLen) : Len(p) >= 1 /\ p[1] = Sep /\ WellFormed(p)}

\* The embedded trees: sets of files, each the sequence of its elements; the
\* directories are the proper prefixes of the files.  go:embed rejects a
\* pattern that matches no file, so the tree is never empty.
TreeFiles == {<<"index.html">>, <<"style.css">>, <<"sub", "index.html">>, <<"sub", "style.css">>}
Trees == (SUBSET TreeFiles) \ {{}}

\* strings.Split(p, "/"): the elements of p, "" for an empty one.
RECURSIVE Split(_)
Split(p) ==
    IF p = <<>> THEN <<"">>
    ELSE IF Head(p) = Sep THEN <<"">> \o Split(Tail(p))
    ELSE <<Head(p)>> \o Tail(Split(Tail(p)))

\* The path whose elements are es, each preceded by a separator.
RECURSIVE Rooted(_)
Rooted(es) == IF es = <<>> THEN <<>> ELSE <<Sep, Head(es)>> \o Rooted(Tail(es))

\* strings.TrimPrefix(s, "/")
TrimPrefix(s) == IF s # <<>> /\ Head(s) = Sep THEN Tail(s) ELSE s

\* strings.TrimSuffix(s, "/")
TrimSuffix(s) == IF s # <<>> /\ s[Len(s)] = Sep THEN SubSeq(s, 1, Len(s) - 1) ELSE s

\* strings.HasSuffix(s, "/index.html")
HasIndexSuffix(s) == Len(s) >= 2 /\ s[Len(s) - 1] = Sep /\ s[Len(s)] = "index.html"

\* path.Clean of a rooted path: drop empty and "." elements, let ".." remove
\* the element before it (nothing at the root).
RECURSIVE CleanElems(_, _)
CleanElems(es, acc) ==
    IF es = <<>> THEN acc
    ELSE IF Head(es) \in {"", "."} THEN CleanElems(Tail(es), acc)
    ELSE IF Head(es) = ".."
         THEN CleanElems(Tail(es), IF acc = <<>> THEN acc ELSE SubSeq(acc, 1, Len(acc) - 1))
    ELSE CleanElems(Tail(es), Append(acc, Head(es)))

Clean(p) ==
    LET es == CleanElems(Split(p), <<>>)
    IN  IF es = <<>> THEN <<Sep>> ELSE Rooted(es)

\* path.Base: the last element, trailing separators removed; "/" if none.
RECURSIVE Base(_)
Base(p) ==
    IF p = <<>> THEN "."
    ELSE IF p[Len(p)] = Sep
         THEN (IF Len(p) = 1 THEN Sep ELSE Base(SubSeq(p, 1, Len(p) - 1)))
    ELSE p[Len(p)]

\* net/http cleanPath, which ServeMux uses to find the canonical path: the
\* cleaned path, keeping a trailing separator.
cleanPath(p) ==
    IF p = <<>> THEN <<Sep>>
    ELSE LET q  == IF Head(p) = Sep THEN p ELSE <<Sep>> \o p
             np == Clean(q)
         IN  IF q[Len(q)] = Sep /\ np # <<Sep>> THEN Append(np, Sep) ELSE np

(***************************************************************************)
(* The embedded file system (fs.Sub of embed.FS).                          *)
(***************************************************************************)
\* fs.ValidPath: "." or non-empty elements none of which is "." or "..",
\* separated by single separators.
ValidPath(name) ==
    \/ name = <<".">>
    \/ \A i \in 1..Len(Split(name)) : Split(name)[i] \notin {"", ".", ".."}

IsPrefix(s, t) == Len(s) <= Len(t) /\ SubSeq(t, 1, Len(s)) = s

\* fsys.Open(name): what the name opens as.
Open(fsys, name) ==
    IF ~ValidPath(name) THEN "invalid"
    ELSE IF name = <<".">> THEN "dir"
    ELSE LET es == Split(name)
         IN  IF es \in fsys THEN "file"
             ELSE IF \E f \in fsys : IsPrefix(es, f) /\ es # f THEN "dir"
             ELSE "notexist"

\* //go:embed front-end/out/*: the files of the tree t as frontendFS holds
\* them, under front-end/out.
EmbedFS(t) == {<<"front-end", "out">> \o f : f \in t}

\* fs.Sub(fsys, dir) without the root: the tree it would serve.
SubNotTaken(fsys, dir) == fsys

\* fs.Sub(fsys, dir): the files under dir, named from dir.
Sub(fsys, dir) ==
    IF dir = <<".">> THEN fsys
    ELSE LET d == Split(dir)
         IN  {SubSeq(f, Len(d) + 1, Len(f)) : f \in {g \in fsys : IsPrefix(d, g) /\ g # d}}

\* http.FS(fsys).Open(name): "/" is the root, else the name without its
\* leading separator.
httpFSOpenName(name) == IF name = <<Sep>> THEN <<".">> ELSE TrimPrefix(name)

(***************************************************************************)
(* Responses.  A body is the bytes of a file, an error text, a directory   *)
(* listing or nothing.                                                     *)
(***************************************************************************)
NoBody == <<>>
Bytes(f) == <<"bytes">> \o f
Listing(d) == <<"listing">> \o d

Response(status, ctype, loc, body) ==
    [status |-> status, ctype |-> ctype, loc |-> loc, body |-> body]

NoResponse == Response(0, "", <<>>, NoBody)

\* http.Error: the message as plain text under the given status.
Error(msg, code) == Response(code, "text/plain", <<>>, <<"text", msg>>)

\* net/http localRedirect: 301 with a relative Location and no body.
localRedirect(newPath) == Response(301, "", newPath, NoBody)

\* mime.TypeByExtension of the name; content sniffing when the extension is
\* unknown.
TypeByExtension(name) ==
    IF name = "index.html" THEN "text/html"
    ELSE IF name = "style.css" THEN "text/css"
    ELSE "sniffed"

\* http.ServeContent for a GET without Range or conditional headers.
serveContent(name, content) == Response(200, TypeByExtension(name), <<>>, content)

\* net/http dirList: an HTML listing of the directory.
dirList(d) == Response(200, "text/html", <<>>, Listing(d))

\* net/http toHTTPError
toHTTPError(kind) ==
    IF kind = "notexist" THEN Error("404 page not found", 404)
    ELSE Error("500 Internal Server Error", 500)

\* net/http serveFile, as http.FileServer calls it (redirect = TRUE).
serveFile(fsys, urlPath, name, redirect) ==
    IF HasIndexSuffix(urlPath) THEN localRedirect(<<".", Sep>>)
    ELSE
    LET kind  == Open(fsys, httpFSOpenName(name))
        slash == urlPath[Len(urlPath)] = Sep
    IN  IF kind \notin {"file", "dir"} THEN toHTTPError(kind)
        ELSE IF redirect /\ kind = "dir" /\ ~slash
             THEN localRedirect(<<Base(urlPath), Sep>>)
        ELSE IF redirect /\ kind = "file" /\ slash
             THEN localRedirect(<<"..", Sep, Base(urlPath)>>)
        ELSE IF kind = "dir"
             THEN IF ~slash THEN localRedirect(<<Base(urlPath), Sep>>)
                  ELSE LET index == TrimSuffix(name) \o <<Sep, "index.html">>
                           ik    == Open(fsys, httpFSOpenName(index))
                       IN  IF ik = "file"
                           THEN serveContent("index.html", Bytes(Split(httpFSOpenName(index))))
                           ELSE IF ik = "dir"
                           THEN dirList(Split(httpFSOpenName(index)))
                           ELSE dirList(Split(httpFSOpenName(name)))
        ELSE serveContent(Base(name), Bytes(Split(httpFSOpenName(name))))

\* http.FileServer(http.FS(fsys)).ServeHTTP
FileServerServeHTTP(fsys, urlPath) ==
    LET upath == IF urlPath = <<>> \/ Head(urlPath) # Sep THEN <<Sep>> \o urlPath ELSE urlPath
    IN  serveFile(fsys, upath, Clean(upath), TRUE)

(***************************************************************************)
(* startServer: the handler registered on "/" and the mux in front of it.  *)
(***************************************************************************)
fileExists(fsys, filePath) ==
    LET fp == IF filePath = <<Sep>> THEN <<"index.html">> ELSE filePath
    IN  Open(fsys, TrimPrefix(fp)) \in {"file", "dir"}

\* The registered function with its test inverted.
HandleFuncInverted(fsys, urlPath) ==
    IF ~fileExists(fsys, urlPath) THEN FileServerServeHTTP(fsys, urlPath)
    ELSE LET kind == Open(fsys, <<"index.html">>)
         IN  IF kind \notin {"file", "dir"} THEN Error("index.html not found", 404)
             ELSE IF kind = "dir" THEN Error("failed to read index.html", 500)
             ELSE serveContent("index.html", Bytes(<<"index.html">>))

\* The function given to mux.HandleFunc("/", ...).
HandleFunc(fsys, urlPath) ==
    IF fileExists(fsys, urlPath) THEN FileServerServeHTTP(fsys, urlPath)
    ELSE LET kind == Open(fsys, <<"index.html">>)
         IN  IF kind \notin {"file", "dir"} THEN Error("index.html not found", 404)
             ELSE IF kind = "dir" THEN Error("failed to read index.html", 500)
             ELSE serveContent("index.html", Bytes(<<"index.html">>))

\* http.ServeMux with the single pattern "/": a path that is not canonical
\* is answered with a redirect to the canonical one, any other path goes to
\* the registered function.
Canonical(urlPath) == cleanPath(urlPath) = urlPath

ServeMuxServeHTTP(fsys, urlPath) ==
    IF ~Canonical(urlPath)
    THEN Response(301, "text/html", cleanPath(urlPath), <<"text", "Moved Permanently">>)
    ELSE HandleFunc(fsys, urlPath)

(***************************************************************************)
(* The state of the runtime process.                                       *)
(***************************************************************************)
VARIABLES
    tree,           \* the embedded asset tree (frontendFS under front-end/out)
    pc,             \* where the main goroutine is
    gpc,            \* where the goroutine running ListenAndServe is
    backend,        \* the backend child process
    kills,          \* number of backendCmd.Process.Kill() calls made
    notified,       \* signal.Notify(stop, ...) has been called
    stop,           \* number of signals held in the one-slot channel stop
    sigs,           \* number of termination signals sent to the process so far
    inShutdown,     \* server.inShutdown
    listener,       \* the TCP listener of the server
    conns,          \* the connections, one request each
    shutdownErr,    \* what server.Shutdown returned
    exitBy,         \* how the process ended
    exitCode,       \* the exit code of the process
    events,         \* the shutdown events so far, in order
    inFlightAtStop, \* the requests in flight when the signal was consumed
    servingAtStop,  \* the listener was accepting when the signal was consumed
    lastReq,        \* test client: the path last requested of the mux
    lastResp        \* test client: the response to it

vars == <<tree, pc, gpc, backend, kills, notified, stop, sigs, inShutdown, listener,
          conns, shutdownErr, exitBy, exitCode, events, inFlightAtStop, servingAtStop,
          lastReq, lastResp>>

procVars == <<pc, gpc, backend, kills, notified, stop, sigs, inShutdown, listener,
              conns, shutdownErr, exitBy, exitCode, events, inFlightAtStop, servingAtStop>>

ConnIds == 1..MaxConns

\* The directory given to fs.Sub.
SubDir == <<"front-end", Sep, "out">>

\* The trees and request paths of the runs of the whole process.
RunTrees == {{<<"index.html">>, <<"style.css">>, <<"sub", "style.css">>}, {<<"style.css">>}}
RunPaths == {<<Sep>>, <<Sep, "style.css">>, <<Sep, "nope">>}

\* The embedded files and the file system startServer serves.
frontendFS == EmbedFS(tree)
Mux(p) == ServeMuxServeHTTP(Sub(frontendFS, SubDir), p)

NoConn == [st |-> "none", path |-> <<>>, resp |-> NoResponse]

InitProc ==
    /\ pc = "startBackend"
    /\ gpc = "none"
    /\ backend = "notStarted"
    /\ kills = 0
    /\ notified = FALSE
    /\ stop = 0
    /\ sigs = 0
    /\ inShutdown = FALSE
    /\ listener = "none"
    /\ conns = [c \in ConnIds |-> NoConn]
    /\ shutdownErr = "unset"
    /\ exitBy = "none"
    /\ exitCode = 0
    /\ events = <<>>
    /\ inFlightAtStop = {}
    /\ servingAtStop = FALSE
    /\ lastReq = <<>>
    /\ lastResp = NoResponse

Init == tree \in RunTrees /\ InitProc

Alive == exitBy = "none"

Active == {c \in ConnIds : conns[c].st = "active"}

\* The process ends: its connections are closed with it, the child process
\* is left as it is.
Exit(by, code) ==
    /\ exitBy' = by
    /\ exitCode' = code
    /\ conns' = [c \in ConnIds |->
                    IF conns[c].st = "active" THEN [conns[c] EXCEPT !.st = "aborted"]
                    ELSE conns[c]]
    /\ events' = Append(events, "exit")

\* A fatal error that is logged and ends the process with code 0.
FatalfExitZero == Exit("Fatalf", 0)

\* log.Fatalf: log, then os.Exit(1); deferred functions are not run.
Fatalf == Exit("Fatalf", 1)

(***************************************************************************)
(* main                                                                    *)
(***************************************************************************)
\* A startBackend that builds the command and never starts it.
StartBackendNotStarted ==
    /\ Alive /\ pc = "startBackend"
    /\ pc' = "startServer"
    /\ UNCHANGED <<tree, gpc, backend, kills, notified, stop, sigs, inShutdown, listener,
                   conns, shutdownErr, exitBy, exitCode, events, inFlightAtStop,
                   servingAtStop, lastReq, lastResp>>

\* startBackend succeeds: cmd.Start() started the child; main defers the Kill.
StartBackendOK ==
    /\ Alive /\ pc = "startBackend"
    /\ backend' = "running"
    /\ pc' = "startServer"
    /\ UNCHANGED <<tree, gpc, kills, notified, stop, sigs, inShutdown, listener, conns,
                   shutdownErr, exitBy, exitCode, events, inFlightAtStop, servingAtStop,
                   lastReq, lastResp>>

\* startBackend fails: cmd.Start() returned an error.
StartBackendFail ==
    /\ Alive /\ pc = "startBackend"
    /\ Fatalf
    /\ UNCHANGED <<tree, pc, gpc, backend, kills, notified, stop, sigs, inShutdown,
                   listener, shutdownErr, inFlightAtStop, servingAtStop, lastReq, lastResp>>

\* startServer and the construction of http.Server: fs.Sub fails only for a
\* directory that is no valid path.
StartServer ==
    /\ Alive /\ pc = "startServer"
    /\ IF ValidPath(SubDir)
       THEN /\ pc' = "notify"
            /\ UNCHANGED <<conns, exitBy, exitCode, events>>
       ELSE /\ Fatalf
            /\ UNCHANGED pc
    /\ UNCHANGED <<tree, gpc, backend, kills, notified, stop, sigs, inShutdown, listener,
                   shutdownErr, inFlightAtStop, servingAtStop, lastReq, lastResp>>

(***************************************************************************)
(* startHTTPServer                                                         *)
(***************************************************************************)
\* stop := make(chan os.Signal, 1); signal.Notify(stop, os.Interrupt, SIGTERM)
SignalNotify ==
    /\ Alive /\ pc = "notify"
    /\ notified' = TRUE
    /\ pc' = "go"
    /\ UNCHANGED <<tree, gpc, backend, kills, stop, sigs, inShutdown, listener, conns,
                   shutdownErr, exitBy, exitCode, events, inFlightAtStop, servingAtStop,
                   lastReq, lastResp>>

\* go func() { ... }(), then the log line; main goes on to wait on stop.
GoListenAndServe ==
    /\ Alive /\ pc = "go"
    /\ gpc' = "spawned"
    /\ pc' = "wait"
    /\ UNCHANGED <<tree, backend, kills, notified, stop, sigs, inShutdown, listener, conns,
                   shutdownErr, exitBy, exitCode, events, inFlightAtStop, servingAtStop,
                   lastReq, lastResp>>

\* <-stop
ReceiveStop ==
    /\ Alive /\ pc = "wait"
    /\ stop > 0
    /\ stop' = stop - 1
    /\ pc' = "shutdown"
    /\ inFlightAtStop' = Active
    /\ servingAtStop' = (listener = "open")
    /\ events' = Append(events, "signal")
    /\ UNCHANGED <<tree, gpc, backend, kills, notified, sigs, inShutdown, listener, conns,
                   shutdownErr, exitBy, exitCode, lastReq, lastResp>>

\* A shutdown that sets inShutdown and leaves the listener open.
ShutdownBeginListenerOpen ==
    /\ Alive /\ pc = "shutdown"
    /\ inShutdown' = TRUE
    /\ events' = Append(events, "stopAccept")
    /\ pc' = "drain"
    /\ UNCHANGED <<tree, gpc, backend, kills, notified, stop, sigs, listener, conns,
                   shutdownErr, exitBy, exitCode, inFlightAtStop, servingAtStop,
                   lastReq, lastResp>>

\* server.Shutdown(ctx) begins: inShutdown is set and the listener closed.
ShutdownBegin ==
    /\ Alive /\ pc = "shutdown"
    /\ inShutdown' = TRUE
    /\ listener' = IF listener = "open" THEN "closed" ELSE listener
    /\ events' = Append(events, "stopAccept")
    /\ pc' = "drain"
    /\ UNCHANGED <<tree, gpc, backend, kills, notified, stop, sigs, conns, shutdownErr,
                   exitBy, exitCode, inFlightAtStop, servingAtStop, lastReq, lastResp>>

\* A shutdown that does not wait for the busy connections.
ShutdownReturnsAtOnce ==
    /\ Alive /\ pc = "drain"
    /\ shutdownErr' = "nil"
    /\ events' = Append(events, "drained")
    /\ pc' = "shutdownReturned"
    /\ UNCHANGED <<tree, gpc, backend, kills, notified, stop, sigs, inShutdown, listener,
                   conns, exitBy, exitCode, inFlightAtStop, servingAtStop, lastReq, lastResp>>

\* server.Shutdown returns nil once no connection is busy.
ShutdownReturnsNil ==
    /\ Alive /\ pc = "drain"
    /\ Active = {}
    /\ shutdownErr' = "nil"
    /\ events' = Append(events, "drained")
    /\ pc' = "shutdownReturned"
    /\ UNCHANGED <<tree, gpc, backend, kills, notified, stop, sigs, inShutdown, listener,
                   conns, exitBy, exitCode, inFlightAtStop, servingAtStop, lastReq, lastResp>>

\* A shutdown under a context without deadline: it never times out.
ShutdownNeverTimesOut ==
    /\ FALSE
    /\ UNCHANGED vars

\* The 5 second context expires while a connection is still busy:
\* server.Shutdown returns context.DeadlineExceeded.
ShutdownReturnsDeadline ==
    /\ Alive /\ pc = "drain"
    /\ Active # {}
    /\ shutdownErr' = "deadline"
    /\ events' = Append(events, "timeout")
    /\ pc' = "shutdownReturned"
    /\ UNCHANGED <<tree, gpc, backend, kills, notified, stop, sigs, inShutdown, listener,
                   conns, exitBy, exitCode, inFlightAtStop, servingAtStop, lastReq, lastResp>>

\* if err := server.Shutdown(ctx); err != nil { log.Fatalf(...) }
ShutdownFailed ==
    /\ Alive /\ pc = "shutdownReturned"
    /\ shutdownErr # "nil"
    /\ Fatalf
    /\ UNCHANGED <<tree, pc, gpc, backend, kills, notified, stop, sigs, inShutdown,
                   listener, shutdownErr, inFlightAtStop, servingAtStop, lastReq, lastResp>>

\* log.Println("HTTP server stopped."); startHTTPServer returns to main.
ShutdownDone ==
    /\ Alive /\ pc = "shutdownReturned"
    /\ shutdownErr = "nil"
    /\ pc' = "deferred"
    /\ UNCHANGED <<tree, gpc, backend, kills, notified, stop, sigs, inShutdown, listener,
                   conns, shutdownErr, exitBy, exitCode, events, inFlightAtStop,
                   servingAtStop, lastReq, lastResp>>

\* A deferred function that takes the error of Kill (os.ErrProcessDone for a
\* process that is gone) as fatal.
DeferredKillChecked ==
    /\ Alive /\ pc = "deferred"
    /\ kills' = kills + 1
    /\ backend' = IF backend = "running" THEN "killed" ELSE backend
    /\ IF backend = "running"
       THEN /\ events' = Append(events, "kill")
            /\ pc' = "return"
            /\ UNCHANGED <<conns, exitBy, exitCode>>
       ELSE /\ exitBy' = "Fatalf"
            /\ exitCode' = 1
            /\ events' = events \o <<"kill", "exit">>
            /\ UNCHANGED <<pc, conns>>
    /\ UNCHANGED <<tree, gpc, notified, stop, sigs, inShutdown, listener,
                   shutdownErr, inFlightAtStop, servingAtStop, lastReq, lastResp>>

\* main returns: the deferred function kills the backend (backendCmd and its
\* Process are set, startBackend having succeeded).  Kill does not wait for
\* the child, and what it returns (an error for a child that is gone) is
\* discarded.
DeferredKill ==
    /\ Alive /\ pc = "deferred"
    /\ kills' = kills + 1
    /\ backend' = IF backend = "running" THEN "killed" ELSE backend
    /\ events' = Append(events, "kill")
    /\ pc' = "return"
    /\ UNCHANGED <<tree, gpc, notified, stop, sigs, inShutdown, listener, conns,
                   shutdownErr, exitBy, exitCode, inFlightAtStop, servingAtStop,
                   lastReq, lastResp>>

\* main has returned: the process exits with code 0.
MainReturn ==
    /\ Alive /\ pc = "return"
    /\ Exit("return", 0)
    /\ UNCHANGED <<tree, pc, gpc, backend, kills, notified, stop, sigs, inShutdown,
                   listener, shutdownErr, inFlightAtStop, servingAtStop, lastReq, lastResp>>

(***************************************************************************)
(* The goroutine of startHTTPServer: server.ListenAndServe()               *)
(***************************************************************************)
\* ListenAndServe first checks srv.shuttingDown().
ListenAndServeEnter ==
    /\ Alive /\ gpc = "spawned"
    /\ gpc' = IF inShutdown THEN "returned" ELSE "listen"
    /\ UNCHANGED <<tree, pc, backend, kills, notified, stop, sigs, inShutdown, listener,
                   conns, shutdownErr, exitBy, exitCode, events, inFlightAtStop,
                   servingAtStop, lastReq, lastResp>>

\* net.Listen binds the port.
NetListenOK ==
    /\ Alive /\ gpc = "listen"
    /\ listener' = "bound"
    /\ gpc' = "bound"
    /\ UNCHANGED <<tree, pc, backend, kills, notified, stop, sigs, inShutdown, conns,
                   shutdownErr, exitBy, exitCode, events, inFlightAtStop, servingAtStop,
                   lastReq, lastResp>>

\* net.Listen fails (the port is taken): ListenAndServe returns the error,
\* which is not ErrServerClosed, and the goroutine calls log.Fatalf.
NetListenFail ==
    /\ Alive /\ gpc = "listen"
    /\ Fatalf
    /\ UNCHANGED <<tree, pc, gpc, backend, kills, notified, stop, sigs, inShutdown,
                   listener, shutdownErr, inFlightAtStop, servingAtStop, lastReq, lastResp>>

\* srv.Serve(ln): trackListener refuses the listener of a server that is
\* shutting down (Serve closes it and returns ErrServerClosed), else the
\* accept loop starts.
ServeBegin ==
    /\ Alive /\ gpc = "bound"
    /\ IF inShutdown
       THEN listener' = "closed" /\ gpc' = "returned"
       ELSE listener' = "open" /\ gpc' = "serving"
    /\ UNCHANGED <<tree, pc, backend, kills, notified, stop, sigs, inShutdown, conns,
                   shutdownErr, exitBy, exitCode, events, inFlightAtStop, servingAtStop,
                   lastReq, lastResp>>

\* Accept fails on the listener Shutdown closed: Serve returns
\* ErrServerClosed and the goroutine ends.
ServeClosed ==
    /\ Alive /\ gpc = "serving"
    /\ listener = "closed"
    /\ gpc' = "returned"
    /\ UNCHANGED <<tree, pc, backend, kills, notified, stop, sigs, inShutdown, listener,
                   conns, shutdownErr, exitBy, exitCode, events, inFlightAtStop,
                   servingAtStop, lastReq, lastResp>>

\* The accept loop takes a connection and a request for path p starts.
Accept(c, p) ==
    /\ Alive /\ gpc = "serving"
    /\ listener = "open"
    /\ conns[c].st = "none"
    /\ conns' = [conns EXCEPT ![c] = [st |-> "active", path |-> p, resp |-> NoResponse]]
    /\ UNCHANGED <<tree, pc, gpc, backend, kills, notified, stop, sigs, inShutdown,
                   listener, shutdownErr, exitBy, exitCode, events, inFlightAtStop,
                   servingAtStop, lastReq, lastResp>>

\* A handler that writes its response and takes an error status as fatal.
RespondFatalOnError(c) ==
    /\ Alive
    /\ conns[c].st = "active"
    /\ LET resp == Mux(conns[c].path)
       IN  IF resp.status >= 400
           THEN /\ conns' = [d \in ConnIds |->
                                IF d = c THEN [st |-> "done", path |-> conns[c].path, resp |-> resp]
                                ELSE IF conns[d].st = "active"
                                     THEN [conns[d] EXCEPT !.st = "aborted"]
                                     ELSE conns[d]]
                /\ exitBy' = "Fatalf"
                /\ exitCode' = 1
                /\ events' = Append(events, "exit")
           ELSE /\ conns' = [conns EXCEPT ![c] = [st |-> "done", path |-> conns[c].path,
                                                  resp |-> resp]]
                /\ UNCHANGED <<exitBy, exitCode, events>>
    /\ UNCHANGED <<tree, pc, gpc, backend, kills, notified, stop, sigs, inShutdown,
                   listener, shutdownErr, inFlightAtStop, servingAtStop, lastReq, lastResp>>

\* The mux answers the request of connection c.
Respond(c) ==
    /\ Alive
    /\ conns[c].st = "active"
    /\ conns' = [conns EXCEPT ![c] = [st |-> "done", path |-> conns[c].path,
                                      resp |-> Mux(conns[c].path)]]
    /\ UNCHANGED <<tree, pc, gpc, backend, kills, notified, stop, sigs, inShutdown,
                   listener, shutdownErr, exitBy, exitCode, events, inFlightAtStop,
                   servingAtStop, lastReq, lastResp>>

(***************************************************************************)
(* The environment                                                         *)
(***************************************************************************)
\* A signal handling in which a signal that arrives once the shutdown has
\* begun ends the process at once.
SignalEscalates ==
    /\ Alive
    /\ sigs < MaxSignals
    /\ sigs' = sigs + 1
    /\ IF notified /\ pc \in {"notify", "go", "wait"}
       THEN /\ stop' = 1
            /\ UNCHANGED <<conns, exitBy, exitCode, events>>
       ELSE /\ Exit("signal", 2)
            /\ UNCHANGED stop
    /\ UNCHANGED <<tree, pc, gpc, backend, kills, notified, inShutdown, listener,
                   shutdownErr, inFlightAtStop, servingAtStop, lastReq, lastResp>>

\* Delivery to a channel without a buffer: signal.Notify does not block, so
\* the signal is dropped unless main is already receiving.
SignalUnbuffered ==
    /\ Alive
    /\ sigs < MaxSignals
    /\ sigs' = sigs + 1
    /\ IF notified
       THEN /\ stop' = IF pc = "wait" THEN 1 ELSE stop
            /\ UNCHANGED <<conns, exitBy, exitCode, events>>
       ELSE /\ Exit("signal", 2)
            /\ UNCHANGED stop
    /\ UNCHANGED <<tree, pc, gpc, backend, kills, notified, inShutdown, listener,
                   shutdownErr, inFlightAtStop, servingAtStop, lastReq, lastResp>>

\* An interrupt or SIGTERM is sent to the process.  Before signal.Notify the
\* Go runtime's default applies and the process dies of the signal; after
\* it the signal goes to the channel, and is dropped when the slot is full.
\* The status of a process that died of a signal is not 0; 2 stands for it.
Signal ==
    /\ Alive
    /\ sigs < MaxSignals
    /\ sigs' = sigs + 1
    /\ IF notified
       THEN /\ stop' = 1
            /\ UNCHANGED <<conns, exitBy, exitCode, events>>
       ELSE /\ Exit("signal", 2)
            /\ UNCHANGED stop
    /\ UNCHANGED <<tree, pc, gpc, backend, kills, notified, inShutdown, listener,
                   shutdownErr, inFlightAtStop, servingAtStop, lastReq, lastResp>>

\* A runtime that waits on the backend and takes its end as fatal.
BackendExitsStopsRuntime ==
    /\ backend = "running"
    /\ backend' = "exited"
    /\ IF Alive
       THEN Fatalf
       ELSE UNCHANGED <<conns, exitBy, exitCode, events>>
    /\ UNCHANGED <<tree, pc, gpc, kills, notified, stop, sigs, inShutdown, listener,
                   shutdownErr, inFlightAtStop, servingAtStop, lastReq, lastResp>>

\* The backend process ends on its own.
BackendExits ==
    /\ backend = "running"
    /\ backend' = "exited"
    /\ UNCHANGED <<tree, pc, gpc, kills, notified, stop, sigs, inShutdown, listener, conns,
                   shutdownErr, exitBy, exitCode, events, inFlightAtStop, servingAtStop,
                   lastReq, lastResp>>

Next ==
    \/ StartBackendOK
    \/ StartBackendFail
    \/ StartServer
    \/ SignalNotify
    \/ GoListenAndServe
    \/ ReceiveStop
    \/ ShutdownBegin
    \/ ShutdownReturnsNil
    \/ ShutdownReturnsDeadline
    \/ ShutdownFailed
    \/ ShutdownDone
    \/ DeferredKill
    \/ MainReturn
    \/ ListenAndServeEnter
    \/ NetListenOK
    \/ NetListenFail
    \/ ServeBegin
    \/ ServeClosed
    \/ \E c \in ConnIds, p \in RunPaths : Accept(c, p)
    \/ \E c \in ConnIds : Respond(c)
    \/ Signal
    \/ BackendExits

Spec == Init /\ [][Next]_vars

(***************************************************************************)
(* The mux under a test client, as in TestFrontendServe: any tree, any     *)
(* request path, one GET.                                                  *)
(***************************************************************************)
InitServe == tree \in Trees /\ InitProc

Get(p) ==
    /\ lastReq = <<>>
    /\ lastReq' = p
    /\ lastResp' = Mux(p)
    /\ UNCHANGED <<tree, procVars>>

NextServe == \E p \in Paths : Get(p)

SpecServe == InitServe /\ [][NextServe]_vars

(***************************************************************************)
(* Vocabulary of the claims.                                               *)
(***************************************************************************)
IndexFile == <<"index.html">>
Exited == exitBy # "none"
BackendStarted == backend # "notStarted"
HasEvent(e) == \E i \in 1..Len(events) : events[i] = e
Requested == lastReq # <<>>

\* The request path p is the separator followed by the name of a file of
\* the asset tree.
NamesFile(p) == Len(p) >= 2 /\ Head(p) = Sep /\ Split(Tail(p)) \in tree

\* A client resolving the relative Location ref against the path base.
ResolveReference(base, ref) ==
    LET k == CHOOSE i \in 1..Len(base) :
                 base[i] = Sep /\ \A j \in (i + 1)..Len(base) : base[j] # Sep
    IN  cleanPath(SubSeq(base, 1, k) \o ref)

\* The two orders of a whole shutdown.
DrainedOrder == <<"signal", "stopAccept", "drained", "kill", "exit">>
TimeoutOrder == <<"signal", "stopAccept", "timeout", "kill", "exit">>

(***************************************************************************)
(* Lifetime of the process (Spec)                                          *)
(***************************************************************************)
\* C1: whenever the process has exited by returning from main or by a fatal
\* error after the backend was started, a Kill of the backend was issued
\* before the exit.
C1_KillOnEveryExit ==
    (exitBy \in {"return", "Fatalf"} /\ BackendStarted) => kills > 0

\* C2: in a run that consumed a termination signal and has exited, the events
\* are: stop accepting, then drained or timed out, then Kill of the backend,
\* then exit -- for a drain that completes and for one that times out.
C2_ShutdownOrder ==
    (Exited /\ HasEvent("signal")) => events \in {DrainedOrder, TimeoutOrder}

\* C3: a drain that exceeds its grace period is not fatal: the process that
\* has exited after server.Shutdown returned the deadline error has run the
\* shutdown to its end (the backend Kill) and exited with code 0.
C3_ShutdownErrorNotFatal ==
    (Exited /\ shutdownErr = "deadline") =>
        (exitBy = "return" /\ exitCode = 0 /\ kills > 0)

\* C9: a termination signal delivered to the process once the backend runs
\* leads to the graceful shutdown: the process never ends without having
\* stopped the listener and then asked the backend to terminate.
C9_EverySignalGraceful ==
    (Exited /\ sigs > 0 /\ BackendStarted) =>
        (exitBy = "return" /\ HasEvent("stopAccept") /\ HasEvent("kill"))

\* C10: a signal is consumed while the listener serves and the drain ends
\* within the grace period (server.Shutdown returns nil): once the process
\* has exited, every request that was accepted has its response, the
\* backend was asked to terminate after the drain and runs no more, and the
\* exit code is 0.
C10_GracefulDrain ==
    (Exited /\ servingAtStop /\ shutdownErr = "nil") =>
        /\ \A c \in ConnIds : conns[c].st \in {"none", "done"}
        /\ \A c \in inFlightAtStop : conns[c].st = "done" /\ conns[c].resp = Mux(conns[c].path)
        /\ events = DrainedOrder
        /\ kills = 1
        /\ backend \in {"killed", "exited"}
        /\ exitBy = "return"
        /\ exitCode = 0

\* C10 witness: the process has exited after a drain during which a request
\* in flight at the signal was completed.
C10_Witness ==
    /\ Exited /\ servingAtStop /\ shutdownErr = "nil"
    /\ inFlightAtStop # {}
    /\ backend = "killed"

(***************************************************************************)
(* The static server (SpecServe)                                           *)
(***************************************************************************)
\* C4: a request path that names an existing file of the asset tree is
\* answered 200 with the bytes of that file (stated for the files other than
\* the entry document at the root, whose own path C7 is about).
C4_EveryFileServed ==
    (Requested /\ NamesFile(lastReq) /\ lastReq # <<Sep, "index.html">>) =>
        (lastResp.status = 200 /\ lastResp.body = Bytes(Split(Tail(lastReq))))

\* C5: with index.html at the root of the tree, a request path that names no
\* file of the tree is answered 200 with the bytes of index.html (stated for
\* the canonical paths, which the mux hands to the registered function).
C5_FallbackForNonFiles ==
    (Requested /\ Canonical(lastReq) /\ IndexFile \in tree /\ ~NamesFile(lastReq)) =>
        (lastResp.status = 200 /\ lastResp.body = Bytes(IndexFile))

\* C6: with index.html at the root of the tree, the request for / is
\* answered 200 with Content-Type text/html and the bytes of index.html.
C6_RootServesIndex ==
    (IndexFile \in tree /\ lastReq = <<Sep>>) =>
        /\ lastResp.status = 200
        /\ lastResp.ctype = "text/html"
        /\ lastResp.body = Bytes(IndexFile)

\* C6 witness: / was requested of a tree that has index.html.
C6_Witness == IndexFile \in tree /\ lastReq = <<Sep>> /\ lastResp.status = 200

C8_NoIndexGives404 ==
    (Requested /\ Canonical(lastReq) /\ IndexFile \notin tree /\ ~NamesFile(lastReq)) =>
        lastResp.status = 404

(***************************************************************************)
(* Startup (Spec)                                                          *)
(***************************************************************************)
\* The process ended on a fatal startup error: the backend could not be
\* spawned, the view of the asset tree could not be built, or the listener
\* could not bind.
SpawnFailed == exitBy = "Fatalf" /\ pc = "startBackend"
SubFailed == exitBy = "Fatalf" /\ pc = "startServer"
BindFailed == exitBy = "Fatalf" /\ gpc = "listen"
NeverServed == listener \notin {"open", "closed"} /\ \A c \in ConnIds : conns[c].st = "none"

\* C11: after a fatal startup error the exit code is not 0 and no request was
\* ever accepted or served; after a failed spawn of the backend the listener
\* goroutine was never started.
C11_FatalStartup ==
    /\ (SpawnFailed \/ SubFailed \/ BindFailed) => (exitCode # 0 /\ NeverServed)
    /\ SpawnFailed => (gpc = "none" /\ listener = "none" /\ backend = "notStarted")

\* C11 witness: the process ended because the port could not be bound.
C11_Witness == BindFailed /\ backend = "running" /\ exitCode = 1

\* C12: the listener exists, and connections are accepted, only once the
\* start of the backend has been made.
C12_BackendBeforeListener ==
    (gpc # "none" \/ listener # "none" \/ \E c \in ConnIds : conns[c].st # "none")
        => BackendStarted

\* C12 witness: the listener accepts connections and the backend runs.
C12_Witness == listener = "open" /\ Active # {} /\ backend = "running"

(***************************************************************************)
(* Shutdown (Spec)                                                         *)
(***************************************************************************)
CountEvent(e) == Cardinality({i \in 1..Len(events) : events[i] = e})

\* C13: one shutdown per lifetime: the signal is consumed once, the listener
\* is stopped once and the backend is killed at most once; a signal that
\* arrives after the consumed one changes nothing but the count of signals
\* and the channel -- not the drain, the backend, the outcome or the exit code.
C13_OneShutdown ==
    [][/\ CountEvent("signal")' <= 1
       /\ CountEvent("stopAccept")' <= 1
       /\ kills' <= 1
       /\ (HasEvent("signal") /\ sigs' # sigs) =>
              UNCHANGED <<tree, pc, gpc, backend, kills, notified, inShutdown, listener,
                          conns, shutdownErr, exitBy, exitCode, events, inFlightAtStop,
                          servingAtStop>>]_vars

\* C13 witness: the process has shut down and exited with a second signal
\* left in the channel.
C13_Witness == exitBy = "return" /\ sigs >= 2 /\ stop = 1 /\ kills = 1

\* C14: the Kill is issued at most once, and a Kill issued on a backend that
\* had already ended on its own neither fails nor blocks the shutdown: main
\* goes on to return, and the process that has exited (the listener not
\* having failed to bind meanwhile) exited by that return with code 0.
C14_KillAfterSelfExit ==
    /\ kills <= 1
    /\ (kills > 0 /\ backend = "exited") =>
          /\ Alive => (pc = "return" /\ ENABLED MainReturn)
          /\ (Exited /\ ~BindFailed) => (exitBy = "return" /\ exitCode = 0)

\* C14 witness: the process exited with code 0 after a Kill of a backend that
\* had ended on its own.
C14_Witness == exitBy = "return" /\ exitCode = 0 /\ backend = "exited" /\ kills = 1

(***************************************************************************)
(* Directories (SpecServe)                                                 *)
(***************************************************************************)
\* The request path p is the separator followed by the name of a directory
\* of the asset tree.
NamesDir(p) ==
    /\ Len(p) >= 2 /\ Head(p) = Sep
    /\ \E f \in tree : IsPrefix(Split(Tail(p)), f) /\ Split(Tail(p)) # f

\* C15: with index.html at the root, a request path that names a directory
\* which has no index document is answered 200 with the bytes of the root
\* index.html -- not with a listing, not with a redirect.
C15_DirectoryFallsBack ==
    (/\ Requested /\ IndexFile \in tree
     /\ NamesDir(lastReq)
     /\ Append(Split(Tail(lastReq)), "index.html") \notin tree) =>
        (lastResp.status = 200 /\ lastResp.body = Bytes(IndexFile))

(***************************************************************************)
(* The coordinator (Spec)                                                  *)
(***************************************************************************)
\* The state of the shutdown coordinator, by where main is: Running (0) up
\* to the wait on stop, Draining (1) from the consumed signal to the return
\* of server.Shutdown, Stopped (2) after it.
CoordState ==
    IF pc \in {"deferred", "return"} THEN 2
    ELSE IF pc \in {"shutdown", "drain", "shutdownReturned"} THEN 1
    ELSE 0

NoNewConn == \A c \in ConnIds : conns[c].st = "none" => conns'[c].st = "none"

ShutdownStep ==
    \/ ShutdownBegin
    \/ ShutdownReturnsNil
    \/ ShutdownReturnsDeadline
    \/ ShutdownFailed
    \/ ShutdownDone
    \/ DeferredKill
    \/ MainReturn

MainStep ==
    \/ StartBackendOK
    \/ StartBackendFail
    \/ StartServer
    \/ SignalNotify
    \/ GoListenAndServe
    \/ ShutdownStep

\* The main goroutine is scheduled, and the timer of the shutdown context
\* fires; nothing is assumed of the requests, which may never finish.  One
\* tree and one request path are enough here: no step of the shutdown reads
\* them.
InitLive == tree = {<<"index.html">>, <<"style.css">>, <<"sub", "style.css">>} /\ InitProc

NextLive ==
    \/ MainStep
    \/ ReceiveStop
    \/ ListenAndServeEnter
    \/ NetListenOK
    \/ NetListenFail
    \/ ServeBegin
    \/ ServeClosed
    \/ \E c \in ConnIds : Accept(c, <<Sep>>)
    \/ \E c \in ConnIds : Respond(c)
    \/ Signal
    \/ BackendExits

LiveSpec == InitLive /\ [][NextLive]_vars /\ WF_vars(ShutdownStep)

C18_RequestFrame ==
    [][\A c \in ConnIds :
          /\ (conns[c].st = "active" /\ conns'[c].st = "done") =>
                /\ conns'[c].path = conns[c].path
                /\ \A d \in ConnIds \ {c} : conns'[d] = conns[d]
                /\ UNCHANGED <<tree, pc, gpc, backend, kills, notified, stop, sigs,
                               inShutdown, listener, shutdownErr, exitBy, exitCode, events>>
          /\ conns'[c].st = "done" => conns'[c].resp = Mux(conns'[c].path)]_vars

\* C18 witness: one request was answered 404 and another 200, and the server
\* still accepts connections.
C18_Witness ==
    /\ Alive /\ listener = "open" /\ gpc = "serving"
    /\ \E c, d \in ConnIds :
          /\ conns[c].st = "done" /\ conns[c].resp.status = 404
          /\ conns[d].st = "done" /\ conns[d].resp.status = 200

\* C19: a signal delivered once the channel is registered is never lost: as
\* long as the process lives it is either held in the one-slot buffer or has
\* started the shutdown sequence; before main has received it, it is in the
\* buffer, and at the wait the receive is enabled.
C19_SignalHeld ==
    (Alive /\ sigs > 0) =>
        /\ notified
        /\ stop = 1 \/ HasEvent("signal")
        /\ pc \in {"go", "wait"} => stop = 1
        /\ pc = "wait" => ENABLED ReceiveStop

\* C19 witness: the signal arrived between signal.Notify and the go
\* statement, and waits in the buffer.
C19_Witness == Alive /\ pc = "go" /\ gpc = "none" /\ sigs = 1 /\ stop = 1

\* C20: the end of the backend changes nothing in the runtime: the step
\* leaves the coordinator, the listener and the connections as they are, a
\* backend that has ended is never running again, an open listener accepts a
\* connection on any free slot whatever the state of the backend, and a
\* runtime whose backend ended on its own exits only after a termination
\* signal or a failure of the listener.
C20_BackendNotWatched ==
    /\ [][/\ (backend = "running" /\ backend' = "exited") =>
                UNCHANGED <<tree, pc, gpc, kills, notified, stop, sigs, inShutdown,
                            listener, conns, shutdownErr, exitBy, exitCode, events>>
          /\ backend = "exited" => backend' = "exited"]_vars
    /\ [](\A c \in ConnIds, p \in RunPaths :
             (Alive /\ gpc = "serving" /\ listener = "open" /\ conns[c].st = "none")
                => ENABLED Accept(c, p))
    /\ []((Exited /\ backend = "exited") => (sigs > 0 \/ BindFailed))

\* C20 witness: the backend has ended while main waits for a signal, the
\* listener is open and a request has been answered 200.
C20_Witness ==
    /\ Alive /\ pc = "wait" /\ sigs = 0 /\ backend = "exited"
    /\ gpc = "serving" /\ listener = "open"
    /\ \E c \in ConnIds : conns[c].st = "done" /\ conns[c].resp.status = 200

====
